---- MODULE Spec2Model ----
(***************************************************************************)
(* A model of src/index.js, the News API client: the module-level API_KEY, *)
(* the NewsAPI constructor, the five facade methods, the argument          *)
(* normaliser, the URL builder and getDataFromWeb with the handler it      *)
(* passes to request.get.                                                  *)
(*                                                                         *)
(* JavaScript values are records [t, v]: t is the kind of the value and v  *)
(* a sequence holding its content (the characters of a string as one       *)
(* token, the key/value pairs of an object in insertion order, the name    *)
(* and message of an error).                                               *)
(***************************************************************************)
EXTENDS Naturals, Sequences, FiniteSets

VARIABLES
  API_KEY,   \* the module-level `let API_KEY` (line 18)
  clients,   \* the NewsAPI instances built so far; clients[i] is the apiKey instance i was built with
  call,      \* the facade call in progress or last completed, with its request, promise and callback record
  thrown     \* what the last operation threw synchronously to its caller (Undefined: nothing)

vars == <<API_KEY, clients, call, thrown>>

---------------------------------------------------------------------------
(* Bounds *)

MaxClients == 2
MaxArgs == 2

---------------------------------------------------------------------------
(* JavaScript values *)

Undefined == [t |-> "undefined", v |-> <<>>]
Null == [t |-> "null", v |-> <<>>]
Str(s) == [t |-> "string", v |-> <<s>>]
Num(n) == [t |-> "number", v |-> <<n>>]
Bool(b) == [t |-> "boolean", v |-> <<b>>]
Obj(pairs) == [t |-> "object", v |-> pairs]
Arr(items) == [t |-> "array", v |-> items]
Fn(f) == [t |-> "function", v |-> <<f>>]
Err(name, message) == [t |-> "error", v |-> <<name, message>>]

\* `typeof x`
typeof(x) ==
  CASE x.t = "undefined" -> "undefined"
    [] x.t \in {"null", "object", "array", "error"} -> "object"
    [] OTHER -> x.t

\* JavaScript truthiness, as `!apiKey`, `if (apiKey)` and `if (err)` use it
Truthy(x) ==
  /\ x.t \notin {"undefined", "null"}
  /\ x # Str("")
  /\ x # Num("0")
  /\ x # Bool("false")

\* `args[i]` of a JavaScript array: undefined past its end (i counts from 1 here)
At(args, i) == IF i <= Len(args) THEN args[i] ELSE Undefined

\* `data.key` of a value that is neither null nor undefined
Get(data, key) ==
  IF data.t = "object" /\ \E i \in 1..Len(data.v) : data.v[i][1] = key
  THEN LET i == CHOOSE j \in 1..Len(data.v) : data.v[j][1] = key IN data.v[i][2]
  ELSE Undefined

\* `${x}` in a template literal
ToText(x) == IF x.t \in {"undefined", "null"} THEN x.t ELSE x.v[1]

---------------------------------------------------------------------------
(* The inputs *)

\* what a caller may pass to `new NewsAPI(...)`
KeyArgs == {Undefined, Str(""), Str("k1"), Str("k2")}

OptsEmpty == Obj(<<>>)
OptsQ == Obj(<< <<"q", Str("a b")>>, <<"language", Str("de")>> >>)
FnOk == Fn("returns")
FnThrows == Fn("throws")

\* what a caller may pass to a facade method
ArgValues == {Null, Str("x"), Num("7"), OptsEmpty, OptsQ, FnOk, FnThrows}

\* the arguments of the calls whose responses are followed: a non-mapping, a
\* mapping, a callback that returns and one that throws, in every position
ShapeValues == {Null, OptsQ, FnOk, FnThrows}

RECURSIVE SeqsUpTo(_, _)
SeqsUpTo(S, n) ==
  IF n = 0 THEN {<<>>}
  ELSE LET shorter == SeqsUpTo(S, n - 1)
       IN shorter \cup {Append(s, x) : s \in {q \in shorter : Len(q) = n - 1}, x \in S}

ArgLists == SeqsUpTo(ArgValues, MaxArgs)
CallShapes == SeqsUpTo(ShapeValues, MaxArgs)

\* what the transport may hand to the handler: an error, or a body
TransportError == Err(<<"Error">>, Str("ECONNREFUSED"))
BodyOk == "{\"status\":\"ok\",\"totalResults\":\"0\"}"
BodyError == "{\"status\":\"error\",\"code\":\"apiKeyInvalid\",\"message\":\"bad key\"}"
BodyNoStatus == "{\"sources\":\"none\"}"
Bodies == {BodyOk, BodyError, BodyNoStatus, "null", "7", "[]", "<html>"}
Responses ==
  {[err |-> TransportError, body |-> Undefined]}
    \cup {[err |-> Null, body |-> Str(b)] : b \in Bodies}

\* what a callback that throws throws
CbError == Err(<<"Error">>, Str("thrown by the callback"))
Throws(cb) == cb = FnThrows

---------------------------------------------------------------------------
(* The code *)

host == "https://newsapi.org"

NoKeyError == Err(<<"Error">>, Str("No API key specified"))

\* NewsAPIError, had it taken its name from the message
NewsAPIErrorFromMessage(err) ==
  Err(<<"NewsAPIError: ", ToText(Get(err, "message"))>>, Get(err, "message"))

\* class NewsAPIError: name from the envelope's code, message the envelope's message
NewsAPIError(err) ==
  Err(<<"NewsAPIError: ", ToText(Get(err, "code"))>>, Get(err, "message"))

\* lines 72-84
splitArgsIntoOptionsAndCallback(args) ==
  IF Len(args) > 1 THEN [options |-> args[1], cb |-> args[2]]
  ELSE IF typeof(At(args, 1)) = "object" THEN [options |-> At(args, 1), cb |-> Undefined]
  ELSE IF typeof(At(args, 1)) = "function" THEN [options |-> Undefined, cb |-> At(args, 1)]
  ELSE [options |-> Undefined, cb |-> Undefined]

\* querystring's escape of one token: a space becomes %20
qsEscape(s) == IF s = "a b" THEN "a%20b" ELSE s

RECURSIVE qsPairs(_)
qsPairs(pairs) ==
  IF pairs = <<>> THEN <<>>
  ELSE LET p == Head(pairs)
           one == <<qsEscape(p[1]), "=", qsEscape(ToText(p[2]))>>
       IN IF Len(pairs) = 1 THEN one ELSE one \o <<"&">> \o qsPairs(Tail(pairs))

\* qs.stringify: the empty string for anything that is not an object
qsStringify(obj) == IF obj.t = "object" THEN qsPairs(obj.v) ELSE <<>>

createUrlFromEndpointAndOptions(endpoint, options) ==
  LET query == qsStringify(options)
      baseURL == <<host, endpoint>>
  IN IF query # <<>> THEN baseURL \o <<"?">> \o query ELSE baseURL

\* Default, had the default been left out
DefaultNever(options, dflt) == options

\* a destructuring default, `{ options = dflt }`: taken when the property is undefined
Default(options, dflt) == IF options = Undefined THEN dflt ELSE options

\* RequestOptions, had the header been attached without the `if (apiKey)`
RequestOptionsAlwaysHeader(url, apiKey) ==
  [url |-> url, headers |-> << <<"X-Api-Key", apiKey>> >>]

\* the options getDataFromWeb hands to request.get
RequestOptions(url, apiKey) ==
  IF Truthy(apiKey)
  THEN [url |-> url, headers |-> << <<"X-Api-Key", apiKey>> >>]
  ELSE [url |-> url, headers |-> <<>>]

\* JSON.parse on the bodies of the model
JSONparse(body) ==
  CASE body = Str(BodyOk) ->
         [ok |-> TRUE, value |-> Obj(<< <<"status", Str("ok")>>, <<"totalResults", Str("0")>> >>)]
    [] body = Str(BodyError) ->
         [ok |-> TRUE,
          value |-> Obj(<< <<"status", Str("error")>>, <<"code", Str("apiKeyInvalid")>>,
                           <<"message", Str("bad key")>> >>)]
    [] body = Str(BodyNoStatus) ->
         [ok |-> TRUE, value |-> Obj(<< <<"sources", Str("none")>> >>)]
    [] body = Str("null") -> [ok |-> TRUE, value |-> Null]
    [] body = Str("7") -> [ok |-> TRUE, value |-> Num("7")]
    [] body = Str("[]") -> [ok |-> TRUE, value |-> Arr(<<>>)]
    [] OTHER -> [ok |-> FALSE, value |-> Err(<<"SyntaxError">>, Str("Unexpected token"))]

StatusTypeError == Err(<<"TypeError">>, Str("Cannot read property 'status' of null"))

---------------------------------------------------------------------------
(* getDataFromWeb and the handler it gives to request.get.  `io` is what   *)
(* one invocation of getDataFromWeb owns: the channel flag, the callback,  *)
(* the requests issued, the promise, and the record of what the handler    *)
(* did (every invocation of the callback with its arguments, whether       *)
(* JSON.parse ran, the exception that left the handler).                   *)

Pending == [state |-> "pending", value |-> Undefined]

\* lines 106-113: the channel flag, the promise, the one request.get
getDataFromWeb(url, apiKey, cb) ==
  [useCallback |-> typeof(cb) = "function",
   cb |-> cb,
   requests |-> <<RequestOptions(url, apiKey)>>,
   promise |-> Pending,
   cbCalls |-> <<>>,
   parsed |-> FALSE,
   uncaught |-> Undefined]

\* resolve / reject of the promise: a settled promise stays as it is
Settle(io, state, value) ==
  IF io.promise.state = "pending"
  THEN [io EXCEPT !.promise = [state |-> state, value |-> value]]
  ELSE io

\* `cb(...cbArgs)`: the invocation is recorded; r.threw says whether it threw
InvokeCb(io, cbArgs) ==
  [io |-> [io EXCEPT !.cbCalls = Append(@, cbArgs)], threw |-> Throws(io.cb)]

\* an exception that nothing catches leaves the handler
Propagate(r) == IF r.threw THEN [r.io EXCEPT !.uncaught = CbError] ELSE r.io

\* lines 114-117
OnTransportError(io, err) ==
  IF io.useCallback THEN Propagate(InvokeCb(io, <<err>>))
  ELSE Settle(io, "rejected", err)

\* OnCaught, had `cb(e)` not returned before `reject(e)`
OnCaughtAlsoRejects(io, e) ==
  IF io.useCallback THEN Settle(Propagate(InvokeCb(io, <<e>>)), "rejected", e)
  ELSE Settle(io, "rejected", e)

\* lines 123-126, the catch block
OnCaught(io, e) ==
  IF io.useCallback THEN Propagate(InvokeCb(io, <<e>>))
  ELSE Settle(io, "rejected", e)

\* OnData, had `cb(null, data)` not returned before `resolve(data)`
OnDataAlsoResolves(io, data) ==
  IF io.useCallback
  THEN LET r == InvokeCb(io, <<Null, data>>)
       IN [threw |-> r.threw, e |-> CbError, io |-> Settle(r.io, "resolved", data)]
  ELSE [threw |-> FALSE, e |-> Undefined, io |-> Settle(io, "resolved", data)]

\* lines 121-122: a callback that throws here throws inside the try block
OnData(io, data) ==
  IF io.useCallback
  THEN LET r == InvokeCb(io, <<Null, data>>)
       IN [threw |-> r.threw, e |-> CbError, io |-> r.io]
  ELSE [threw |-> FALSE, e |-> Undefined, io |-> Settle(io, "resolved", data)]

\* lines 119-122, the try block: r.threw says whether it threw r.e
TryBlock(io, body) ==
  LET p == JSONparse(body)
      io1 == [io EXCEPT !.parsed = TRUE]
  IN IF ~p.ok THEN [threw |-> TRUE, e |-> p.value, io |-> io1]
     ELSE IF p.value.t \in {"null", "undefined"}
          THEN [threw |-> TRUE, e |-> StatusTypeError, io |-> io1]
     ELSE IF Get(p.value, "status") = Str("error")
          THEN [threw |-> TRUE, e |-> NewsAPIError(p.value), io |-> io1]
     ELSE OnData(io1, p.value)

\* lines 113-127: the handler request.get calls with (err, res, body)
Handler(io, err, body) ==
  IF Truthy(err) THEN OnTransportError(io, err)
  ELSE LET r == TryBlock(io, body)
       IN IF r.threw THEN OnCaught(r.io, r.e) ELSE r.io

---------------------------------------------------------------------------
(* The state machine *)

NoCall ==
  [phase |-> "none", client |-> 0, method |-> "none", args |-> <<>>,
   options |-> Undefined, apiKey |-> Undefined,
   response |-> [err |-> Null, body |-> Undefined],
   io |-> getDataFromWeb(<<>>, Undefined, Undefined)]

Init ==
  /\ API_KEY = Undefined
  /\ clients = <<>>
  /\ call = NoCall
  /\ thrown = Undefined

\* constructor, had line 23 come before line 22
constructorAssignsFirst(key, apiKey) ==
  [thrown |-> ~Truthy(apiKey), API_KEY |-> apiKey]

\* lines 21-23: what the constructor does to the module's API_KEY (now `key`)
constructor(key, apiKey) ==
  IF ~Truthy(apiKey) THEN [thrown |-> TRUE, API_KEY |-> key]
  ELSE [thrown |-> FALSE, API_KEY |-> apiKey]

\* new NewsAPI(apiKey)
NewNewsAPI(apiKey) ==
  LET r == constructor(API_KEY, apiKey)
  IN /\ r.thrown \/ Len(clients) < MaxClients
     /\ API_KEY' = r.API_KEY
     /\ clients' = IF r.thrown THEN clients ELSE Append(clients, apiKey)
     /\ thrown' = IF r.thrown THEN NoKeyError ELSE Undefined
     /\ UNCHANGED call

\* a facade method of instance c returns the promise of getDataFromWeb
Dispatch(c, method, args, options, apiKey, io) ==
  /\ call.phase = "none"
  /\ call' = [phase |-> "pending", client |-> c, method |-> method, args |-> args,
              options |-> options, apiKey |-> apiKey,
              response |-> NoCall.response, io |-> io]
  /\ thrown' = Undefined
  /\ UNCHANGED <<API_KEY, clients>>

LanguageEn == Obj(<< <<"language", Str("en")>> >>)

\* lines 25-29
v2_topHeadlines(c, args) ==
  LET s == splitArgsIntoOptionsAndCallback(args)
      options == Default(s.options, LanguageEn)
      url == createUrlFromEndpointAndOptions("/v2/top-headlines", options)
  IN Dispatch(c, "v2.topHeadlines", args, options, API_KEY, getDataFromWeb(url, API_KEY, s.cb))

\* lines 31-35
v2_everything(c, args) ==
  LET s == splitArgsIntoOptionsAndCallback(args)
      url == createUrlFromEndpointAndOptions("/v2/everything", s.options)
  IN Dispatch(c, "v2.everything", args, s.options, API_KEY, getDataFromWeb(url, API_KEY, s.cb))

\* lines 37-41
v2_sources(c, args) ==
  LET s == splitArgsIntoOptionsAndCallback(args)
      url == createUrlFromEndpointAndOptions("/v2/sources", s.options)
  IN Dispatch(c, "v2.sources", args, s.options, API_KEY, getDataFromWeb(url, API_KEY, s.cb))

\* lines 45-49
sources(c, args) ==
  LET s == splitArgsIntoOptionsAndCallback(args)
      url == createUrlFromEndpointAndOptions("/v1/sources", s.options)
  IN Dispatch(c, "sources", args, s.options, Null, getDataFromWeb(url, Null, s.cb))

\* lines 51-55
articles(c, args) ==
  LET s == splitArgsIntoOptionsAndCallback(args)
      url == createUrlFromEndpointAndOptions("/v1/articles", s.options)
  IN Dispatch(c, "articles", args, s.options, API_KEY, getDataFromWeb(url, API_KEY, s.cb))

\* the transport answers the pending request: request.get calls the handler once
Respond(r) ==
  /\ call.phase = "pending"
  /\ call' = [call EXCEPT !.phase = "done", !.response = r,
                          !.io = Handler(call.io, r.err, r.body)]
  /\ thrown' = Undefined
  /\ UNCHANGED <<API_KEY, clients>>

\* the caller lets go of a call whose handler has run; it may then make another
Release ==
  /\ call.phase = "done"
  /\ call' = NoCall
  /\ thrown' = Undefined
  /\ UNCHANGED <<API_KEY, clients>>

Next ==
  \/ \E apiKey \in KeyArgs : NewNewsAPI(apiKey)
  \/ \E c \in 1..Len(clients), args \in CallShapes : v2_topHeadlines(c, args)
  \/ \E c \in 1..Len(clients), args \in CallShapes : v2_everything(c, args)
  \/ \E c \in 1..Len(clients), args \in CallShapes : v2_sources(c, args)
  \/ \E c \in 1..Len(clients), args \in CallShapes : sources(c, args)
  \/ \E c \in 1..Len(clients), args \in CallShapes : articles(c, args)
  \/ \E r \in Responses : Respond(r)
  \/ Release

Spec == Init /\ [][Next]_vars

---------------------------------------------------------------------------
(* The argument lists.  One instance has been built with the key "k1"; a   *)
(* facade method is called with every argument list of ArgLists.           *)

InitArgs ==
  /\ API_KEY = Str("k1")
  /\ clients = <<Str("k1")>>
  /\ call = NoCall
  /\ thrown = Undefined

NextArgs ==
  \/ \E args \in ArgLists : v2_topHeadlines(1, args)
  \/ \E args \in ArgLists : v2_everything(1, args)
  \/ \E args \in ArgLists : v2_sources(1, args)
  \/ \E args \in ArgLists : sources(1, args)
  \/ \E args \in ArgLists : articles(1, args)

SpecArgs == InitArgs /\ [][NextArgs]_vars

---------------------------------------------------------------------------
(* The claims *)

Authenticated == {"v2.topHeadlines", "v2.everything", "v2.sources", "articles"}

PathOf(method) ==
  CASE method = "v2.topHeadlines" -> "/v2/top-headlines"
    [] method = "v2.everything" -> "/v2/everything"
    [] method = "v2.sources" -> "/v2/sources"
    [] method = "sources" -> "/v1/sources"
    [] method = "articles" -> "/v1/articles"
    [] OTHER -> "none"

\* the callback the caller supplied, by the call shapes of the facade
SuppliedCb(args) ==
  IF Len(args) >= 2 THEN args[2]
  ELSE IF Len(args) = 1 /\ args[1].t = "function" THEN args[1]
  ELSE Undefined

\* how many times the promise of the call has settled (a promise settles at most once)
Settlements == IF call.io.promise.state = "pending" THEN 0 ELSE 1

\* the error e, and nothing else, was delivered on the channel of the call
ErrorDelivered(e) ==
  IF call.io.useCallback
  THEN call.io.cbCalls = << <<e>> >> /\ call.io.promise = Pending
  ELSE call.io.cbCalls = <<>> /\ call.io.promise = [state |-> "rejected", value |-> e]

\* the value d, and no error, was delivered on the channel of the call
DataDelivered(d) ==
  IF call.io.useCallback
  THEN call.io.cbCalls = << <<Null, d>> >> /\ call.io.promise = Pending
  ELSE call.io.cbCalls = <<>> /\ call.io.promise = [state |-> "resolved", value |-> d]

\* C1 (as claimed): every authenticated request of a call made on a client
\* carries, as its X-Api-Key header, the key that client was constructed with.
C1_EachClientSendsItsOwnKey ==
  call.phase # "none" /\ call.method \in Authenticated =>
    \A i \in 1..Len(call.io.requests) :
      call.io.requests[i].headers = << <<"X-Api-Key", clients[call.client]>> >>

\* C2 (as claimed): a call delivers at most one outcome, whatever the response
\* and whatever the callback does: the callback is invoked at most once, the
\* promise settles at most once, and never both; once the handler has run,
\* exactly one outcome has been delivered.
C2_ExactlyOneOutcome ==
  /\ Len(call.io.cbCalls) + Settlements <= 1
  /\ call.phase = "done" => Len(call.io.cbCalls) + Settlements = 1

C4_ChannelsExclusive ==
  call.phase # "none" =>
    /\ call.io.useCallback = (SuppliedCb(call.args).t = "function")
    /\ call.phase = "pending" => call.io.cbCalls = <<>> /\ Settlements = 0
    /\ call.phase = "done" /\ call.io.useCallback =>
         Len(call.io.cbCalls) >= 1 /\ Settlements = 0
    /\ call.phase = "done" /\ ~call.io.useCallback =>
         call.io.cbCalls = <<>> /\ Settlements = 1

C4_Witness ==
  /\ call.phase = "done"
  /\ call.args = <<OptsQ, Null>>
  /\ call.response.body = Str(BodyError)
  /\ call.io.promise.state = "rejected"

\* what the claim C5 says splitArgsIntoOptionsAndCallback returns
C5_Claimed(args) ==
  IF Len(args) = 2 THEN [options |-> args[1], cb |-> args[2]]
  ELSE IF Len(args) = 1 /\ args[1].t = "object" THEN [options |-> args[1], cb |-> Undefined]
  ELSE IF Len(args) = 1 /\ args[1].t = "function" THEN [options |-> Undefined, cb |-> args[1]]
  ELSE [options |-> Undefined, cb |-> Undefined]

\* C5 (as claimed): for an argument list of length 0 to 2 the normaliser returns
\* (args[0], args[1]) for two arguments, (args[0], undefined) for a single
\* mapping, (undefined, args[0]) for a single function, and (undefined,
\* undefined) otherwise: for no argument, and for a single null, string or number.
C5_SplitAsClaimed ==
  call.phase # "none" /\ Len(call.args) <= 2 =>
    splitArgsIntoOptionsAndCallback(call.args) = C5_Claimed(call.args)

\* the query the claim C6 expects for an options mapping used as supplied
C6_QueryOf(options) ==
  IF options = OptsQ THEN <<"?", "q", "=", "a%20b", "&", "language", "=", "de">>
  ELSE <<>>

\* C6: v2.topHeadlines called with no argument or with a callback only requests
\* <host>/v2/top-headlines?language=en; a method called with an options mapping
\* requests its path with exactly the query of that mapping, no default added;
\* every other method called without options requests its bare path.
C6_DefaultLanguageOnlyForTopHeadlines ==
  call.phase # "none" =>
    LET a == call.args
        url == call.io.requests[1].url
        noOptions == a = <<>> \/ (Len(a) = 1 /\ a[1].t = "function")
    IN /\ noOptions /\ call.method = "v2.topHeadlines" =>
            url = <<host, "/v2/top-headlines", "?", "language", "=", "en">>
       /\ noOptions /\ call.method # "v2.topHeadlines" =>
            url = <<host, PathOf(call.method)>>
       /\ Len(a) >= 1 /\ a[1].t = "object" =>
            url = <<host, PathOf(call.method)>> \o C6_QueryOf(a[1])

C6_Witness ==
  /\ call.phase = "pending"
  /\ call.method = "v2.topHeadlines"
  /\ call.args = <<FnOk>>
  /\ call.io.requests[1].url = <<host, "/v2/top-headlines", "?", "language", "=", "en">>

\* C7: a failed call delivers the error of its failure class, once, on its
\* channel: the transport's error as it is, with JSON.parse never run; the parse
\* error as it is; for an envelope with status "error" a NewsAPIError named after
\* the envelope's code, with the envelope's message, and no success.
C7_ErrorOfItsClass ==
  call.phase = "done" =>
    /\ call.response.err # Null =>
         ErrorDelivered(call.response.err) /\ ~call.io.parsed
    /\ call.response.body = Str("<html>") =>
         ErrorDelivered(Err(<<"SyntaxError">>, Str("Unexpected token")))
    /\ call.response.body = Str(BodyError) =>
         ErrorDelivered(Err(<<"NewsAPIError: ", "apiKeyInvalid">>, Str("bad key")))

C7_Witness ==
  /\ call.phase = "done"
  /\ call.response.body = Str(BodyError)
  /\ call.io.useCallback
  /\ call.io.cbCalls = << <<Err(<<"NewsAPIError: ", "apiKeyInvalid">>, Str("bad key"))>> >>

\* C8 (as claimed): when the transport succeeds and the body parses to a JSON
\* value whose status is not "error" (an object with another status or none, an
\* array, a number, null), the parsed value is delivered as the success and no
\* error is delivered.  Stated for callbacks that return, so that the callback
\* invoked twice (C2) is not what refutes it.
C8_ParsedValueIsSuccess ==
  call.phase = "done" /\ call.response.err = Null /\ ~Throws(call.io.cb) =>
    /\ call.response.body = Str(BodyOk) =>
         DataDelivered(Obj(<< <<"status", Str("ok")>>, <<"totalResults", Str("0")>> >>))
    /\ call.response.body = Str(BodyNoStatus) =>
         DataDelivered(Obj(<< <<"sources", Str("none")>> >>))
    /\ call.response.body = Str("[]") => DataDelivered(Arr(<<>>))
    /\ call.response.body = Str("7") => DataDelivered(Num("7"))
    /\ call.response.body = Str("null") => DataDelivered(Null)

\* C9: a call has issued exactly one request, before and after the response, to
\* the fixed path of its method, and the request carries an X-Api-Key header if
\* and only if the method is one of the four authenticated ones.
C9_OneRequestHeaderIffAuthenticated ==
  call.phase # "none" =>
    LET req == call.io.requests[1]
    IN /\ Len(call.io.requests) = 1
       /\ req.url[1] = host /\ req.url[2] = PathOf(call.method)
       /\ call.method \in Authenticated =>
            Len(req.headers) = 1 /\ req.headers[1][1] = "X-Api-Key"
                                 /\ req.headers[1][2] \in {Str("k1"), Str("k2")}
       /\ call.method \notin Authenticated => req.headers = <<>>

C9_Witness ==
  /\ call.phase = "done"
  /\ call.method = "sources"
  /\ call.response.err = TransportError
  /\ Len(clients) = 2
  /\ call.io.requests[1].headers = <<>>

\* C10: constructing with an absent or empty key throws, and changes neither the
\* stored key, nor the instances, nor the call in progress and its request.
C10_FailedConstructionChangesNothing ==
  [][\A apiKey \in KeyArgs :
       (apiKey \in {Undefined, Str("")} /\ NewNewsAPI(apiKey)) =>
         /\ thrown' = NoKeyError
         /\ API_KEY' = API_KEY /\ clients' = clients /\ call' = call]_vars

C10_Witness ==
  /\ thrown = NoKeyError
  /\ clients = <<Str("k1")>>
  /\ API_KEY = Str("k1")
  /\ call.phase = "pending"
  /\ call.io.requests[1].headers = << <<"X-Api-Key", Str("k1")>> >>

====
